---- MODULE Spec2Model ----
(***************************************************************************)
(* A model of go-asterisk-agi: the AGI session (environment parser, the    *)
(* execute codec and its reply parser) and the FastAGI connection server   *)
(* (accept loop, per-connection workers, Stop).                            *)
(*                                                                         *)
(* Go strings are sequences of one-character strings, so that trimming,    *)
(* slicing, splitting and integer parsing are computed as the code does.   *)
(***************************************************************************)
EXTENDS Integers, Sequences, FiniteSets, TLC

(***************************************************************************)
(* Strings                                                                 *)
(***************************************************************************)

NL == "\n"
CR == "\r"
SP == " "

Digits == <<"0", "1", "2", "3", "4", "5", "6", "7", "8", "9">>

\* unicode.IsSpace restricted to the characters the model uses
IsSpace(c) == c \in {SP, NL, CR, "\t"}

IsDigit(c) == \E i \in 1..10 : Digits[i] = c

DigitVal(c) == (CHOOSE i \in 1..10 : Digits[i] = c) - 1

RECURSIVE TrimLeft(_)
TrimLeft(s) ==
    IF s # <<>> /\ IsSpace(Head(s)) THEN TrimLeft(Tail(s)) ELSE s

RECURSIVE TrimRight(_)
TrimRight(s) ==
    IF s # <<>> /\ IsSpace(s[Len(s)]) THEN TrimRight(SubSeq(s, 1, Len(s) - 1)) ELSE s

\* strings.TrimSpace
TrimSpace(s) == TrimRight(TrimLeft(s))

\* strings.HasPrefix
HasPrefix(s, p) == Len(s) >= Len(p) /\ SubSeq(s, 1, Len(p)) = p

\* strings.HasSuffix
HasSuffix(s, p) == Len(s) >= Len(p) /\ SubSeq(s, Len(s) - Len(p) + 1, Len(s)) = p

\* strings.TrimPrefix
TrimPrefix(s, p) == IF HasPrefix(s, p) THEN SubSeq(s, Len(p) + 1, Len(s)) ELSE s

\* position (1-based) of the first occurrence of character c in s, 0 if none
IndexOf(s, c) ==
    IF \E i \in 1..Len(s) : s[i] = c
    THEN CHOOSE i \in 1..Len(s) : s[i] = c /\ \A j \in 1..(i - 1) : s[j] # c
    ELSE 0

\* strings.SplitN(s, sep, 2) for a one-character separator
SplitN2(s, sep) ==
    LET i == IndexOf(s, sep)
    IN  IF i = 0 THEN <<s>>
        ELSE <<SubSeq(s, 1, i - 1), SubSeq(s, i + 1, Len(s))>>

RECURSIVE DigitsValue(_)
DigitsValue(s) ==
    IF s = <<>> THEN 0
    ELSE 10 * DigitsValue(SubSeq(s, 1, Len(s) - 1)) + DigitVal(s[Len(s)])

\* strconv.Atoi: an optional sign, then one or more decimal digits
Atoi(s) ==
    LET signed == s # <<>> /\ Head(s) \in {"+", "-"}
        body   == IF signed THEN Tail(s) ELSE s
    IN  IF body = <<>> \/ \E i \in 1..Len(body) : ~IsDigit(body[i])
        THEN [ok |-> FALSE, val |-> 0]
        ELSE [ok |-> TRUE,
              val |-> IF signed /\ Head(s) = "-" THEN 0 - DigitsValue(body)
                      ELSE DigitsValue(body)]

RECURSIVE NatStr(_)
NatStr(n) == IF n < 10 THEN <<Digits[n + 1]>> ELSE NatStr(n \div 10) \o <<Digits[(n % 10) + 1]>>

\* decimal text of an integer, as fmt's %d prints it
Itoa(n) == IF n < 0 THEN <<"-">> \o NatStr(0 - n) ELSE NatStr(n)

(***************************************************************************)
(* Replies and the reply parsers                                           *)
(***************************************************************************)

NoErr == "nil"

\* a nil *AgiResponse
NilResponse == [nil |-> TRUE, Status |-> 0, Result |-> 0, Data |-> <<>>, Raw |-> <<>>]

\* &AgiResponse{Status: .., Result: .., Raw: ..} with Data assigned afterwards
AgiResponse(status, result, data, raw) ==
    [nil |-> FALSE, Status |-> status, Result |-> result, Data |-> data, Raw |-> raw]

\* what a call returns: (resp, err), or a run-time panic
Returned(resp, err) == [resp |-> resp, err |-> err, fault |-> FALSE]
Faulted == [resp |-> NilResponse, err |-> NoErr, fault |-> TRUE]

S200 == <<"2", "0", "0">>
SResultEq == <<"r", "e", "s", "u", "l", "t", "=">>

\* parseResponse with the "200" prefix test left out
parseResponse_NoPrefixCheck(line) ==
    LET l == TrimSpace(line)
    IN  IF Len(l) < 4 THEN Faulted
        ELSE LET parts == SplitN2(SubSeq(l, 5, Len(l)), SP)
             IN  IF Len(parts) # 2
                 THEN Returned(NilResponse, "invalid response format")
                 ELSE LET r == Atoi(parts[1])
                      IN  IF ~r.ok
                          THEN Returned(NilResponse, "failed to parse result")
                          ELSE Returned(AgiResponse(1, r.val, TrimSpace(parts[2]), l), NoErr)

\* parseResponse: trim, require the "200" prefix, drop the first four bytes
\* (line[4:] panics when the trimmed line is exactly "200"), split once on a
\* space, require two parts, Atoi the first, trim the second into Data
parseResponse(line) ==
    LET l == TrimSpace(line)
    IN  IF ~HasPrefix(l, S200)
        THEN Returned(NilResponse, "invalid response")
        ELSE IF Len(l) < 4 THEN Faulted
        ELSE LET parts == SplitN2(SubSeq(l, 5, Len(l)), SP)
             IN  IF Len(parts) # 2
                 THEN Returned(NilResponse, "invalid response format")
                 ELSE LET r == Atoi(parts[1])
                      IN  IF ~r.ok
                          THEN Returned(NilResponse, "failed to parse result")
                          ELSE Returned(AgiResponse(1, r.val, TrimSpace(parts[2]), l), NoErr)

\* ParseAGIResult (util.go): (result, data, err)
ParseAGIResult(s) ==
    IF ~HasPrefix(s, S200)
    THEN [result |-> 0, data |-> <<>>, err |-> "invalid AGI response"]
    ELSE LET s1 == TrimPrefix(s, S200 \o <<SP>>)
         IN  IF ~HasPrefix(s1, SResultEq)
             THEN [result |-> 0, data |-> <<>>, err |-> "invalid AGI response format"]
             ELSE LET parts == SplitN2(TrimPrefix(s1, SResultEq), SP)
                      r     == Atoi(parts[1])
                      d     == IF Len(parts) > 1 THEN TrimSpace(parts[2]) ELSE <<>>
                  IN  IF ~r.ok
                      THEN [result |-> 0, data |-> <<>>, err |-> "failed to parse result code"]
                      ELSE [result |-> r.val,
                            data |-> IF HasPrefix(d, <<"(">>) /\ HasSuffix(d, <<")">>)
                                     THEN SubSeq(d, 2, Len(d) - 1) ELSE d,
                            err |-> NoErr]

(***************************************************************************)
(* Convenience operations: a formatted command, execute, and a reading of  *)
(* the reply.  Each is split into the command it formats and what it       *)
(* returns for execute's result r.                                         *)
(***************************************************************************)

Quoted(s) == <<"\"">> \o s \o <<"\"">>

\* string(resp.Result): the one-rune string of code point n, and of U+FFFD
\* when n is no code point
RuneString(n) == IF n < 0 THEN <<"U+FFFD">> ELSE <<"U+" \o ToString(n)>>

\* (value, err) of a wrapper
Value(val, err) == [val |-> val, err |-> err, fault |-> FALSE]
ValueFault == [val |-> <<>>, err |-> NoErr, fault |-> TRUE]

\* the shape shared by GetOption, SayNumber, SayDigits, SayDateTime,
\* RecordFile and ReceiveChar: err -> ("", err); Result == -1 -> ("", nil);
\* otherwise (string(resp.Result), nil)
GetOption(r) ==
    IF r.fault THEN ValueFault
    ELSE IF r.err # NoErr THEN Value(<<>>, r.err)
    ELSE IF r.resp.Result = -1 THEN Value(<<>>, NoErr)
    ELSE Value(RuneString(r.resp.Result), NoErr)

SayNumber(r) ==
    IF r.fault THEN ValueFault
    ELSE IF r.err # NoErr THEN Value(<<>>, r.err)
    ELSE IF r.resp.Result = -1 THEN Value(<<>>, NoErr)
    ELSE Value(RuneString(r.resp.Result), NoErr)

SayDigits(r) ==
    IF r.fault THEN ValueFault
    ELSE IF r.err # NoErr THEN Value(<<>>, r.err)
    ELSE IF r.resp.Result = -1 THEN Value(<<>>, NoErr)
    ELSE Value(RuneString(r.resp.Result), NoErr)

SayDateTime(r) ==
    IF r.fault THEN ValueFault
    ELSE IF r.err # NoErr THEN Value(<<>>, r.err)
    ELSE IF r.resp.Result = -1 THEN Value(<<>>, NoErr)
    ELSE Value(RuneString(r.resp.Result), NoErr)

RecordFile(r) ==
    IF r.fault THEN ValueFault
    ELSE IF r.err # NoErr THEN Value(<<>>, r.err)
    ELSE IF r.resp.Result = -1 THEN Value(<<>>, NoErr)
    ELSE Value(RuneString(r.resp.Result), NoErr)

ReceiveChar(r) ==
    IF r.fault THEN ValueFault
    ELSE IF r.err # NoErr THEN Value(<<>>, r.err)
    ELSE IF r.resp.Result = -1 THEN Value(<<>>, NoErr)
    ELSE Value(RuneString(r.resp.Result), NoErr)

\* WaitForDigit: err -> ("", err); Status == 0 -> ("", nil); otherwise
\* (string(resp.Result), nil)
WaitForDigit(r) ==
    IF r.fault THEN ValueFault
    ELSE IF r.err # NoErr THEN Value(<<>>, r.err)
    ELSE IF r.resp.Status = 0 THEN Value(<<>>, NoErr)
    ELSE Value(RuneString(r.resp.Result), NoErr)

\* GetData: err -> ("", err); otherwise (resp.Data, nil)
GetData(r) ==
    IF r.fault THEN ValueFault
    ELSE IF r.err # NoErr THEN Value(<<>>, r.err)
    ELSE Value(r.resp.Data, NoErr)

\* Answer, Hangup, Noop, ...: the reply is dropped, only err is returned
Answer(r) == IF r.fault THEN ValueFault ELSE Value(<<>>, r.err)

\* the operations a caller may invoke
Ops == {"Answer", "GetOption", "SayNumber", "SayDigits", "SayDateTime",
        "RecordFile", "ReceiveChar", "WaitForDigit", "GetData"}

\* the command line each operation formats (fmt.Sprintf), for fixed arguments:
\* filename f, format g, escape digits 1, number 7, timeout 5, zone z
CommandOf(op) ==
    CASE op = "Answer"      -> <<"A", "N", "S", "W", "E", "R">>
      [] op = "GetOption"   -> <<"G", "E", "T", SP, "O", "P", "T", "I", "O", "N", SP, "f", SP>>
                                \o Quoted(<<"1">>) \o <<SP>> \o Itoa(5)
      [] op = "SayNumber"   -> <<"S", "A", "Y", SP, "N", "U", "M", "B", "E", "R", SP>>
                                \o Itoa(7) \o <<SP>> \o Quoted(<<"1">>)
      [] op = "SayDigits"   -> <<"S", "A", "Y", SP, "D", "I", "G", "I", "T", "S", SP, "7", SP>>
                                \o Quoted(<<"1">>)
      [] op = "SayDateTime" -> <<"S", "A", "Y", SP, "D", "A", "T", "E", "T", "I", "M", "E", SP>>
                                \o Itoa(7) \o <<SP>> \o Quoted(<<"1">>) \o <<SP, "f", SP, "z">>
      [] op = "RecordFile"  -> <<"R", "E", "C", "O", "R", "D", SP, "F", "I", "L", "E", SP, "f", SP, "g", SP>>
                                \o Quoted(<<"1">>) \o <<SP>> \o Itoa(5) \o <<SP>> \o Itoa(0)
                                \o <<SP>> \o Itoa(0) \o <<SP>> \o Itoa(0)
      [] op = "ReceiveChar" -> <<"R", "E", "C", "E", "I", "V", "E", SP, "C", "H", "A", "R", SP>>
                                \o Itoa(5)
      [] op = "WaitForDigit" -> <<"W", "A", "I", "T", SP, "F", "O", "R", SP, "D", "I", "G", "I", "T", SP>>
                                \o Itoa(5)
      [] op = "GetData"     -> <<"G", "E", "T", SP, "D", "A", "T", "A", SP, "f", SP>>
                                \o Itoa(5) \o <<SP>> \o Itoa(7)

\* what operation op returns for execute's result r
ValueOf(op, r) ==
    CASE op = "Answer"      -> Answer(r)
      [] op = "GetOption"   -> GetOption(r)
      [] op = "SayNumber"   -> SayNumber(r)
      [] op = "SayDigits"   -> SayDigits(r)
      [] op = "SayDateTime" -> SayDateTime(r)
      [] op = "RecordFile"  -> RecordFile(r)
      [] op = "ReceiveChar" -> ReceiveChar(r)
      [] op = "WaitForDigit" -> WaitForDigit(r)
      [] op = "GetData"     -> GetData(r)

(***************************************************************************)
(* State                                                                   *)
(***************************************************************************)

VARIABLES
    \* one session under execute: the lock, the transport, the debug sink
    mutex,      \* holder of AgiSession.mutex, 0 when free
    writer,     \* every byte written to AgiSession.writer
    rbuf,       \* bytes the peer has sent that AgiSession.reader has not returned
    tstate,     \* "open": more may arrive; "eof": no more, writes still succeed;
                \* "broken": writes fail
    debugMode,  \* AgiSession.debugMode
    stderr,     \* diagnostic lines printed by execute
    \* the goroutines calling into the session
    cpc,        \* where each caller is inside execute
    cop,        \* the operation it invoked
    cline,      \* the line its ReadString returned
    cres,       \* what execute returned to it
    ncalls,     \* calls started so far
    nreplied,   \* reply lines the peer has sent so far
    wlog,       \* callers in the order their command lines were written
    rlog        \* callers in the order they read a reply line

varsSession == <<mutex, writer, rbuf, tstate, debugMode, stderr,
                 cpc, cop, cline, cres, ncalls, nreplied, wlog, rlog>>

VARIABLES
    \* the FastAGI server
    listener,    \* "open" or "closed"
    srvCtxDone,  \* FastAGIServer.ctx has been cancelled
    wg,          \* FastAGIServer.wg, the in-flight counter
    servePc,     \* where Serve is: "accept", "register", "spawn", "returned"
    serveRet,    \* what Serve returned: "none", "nil", "error"
    nextConn,    \* connections Accept has returned so far
    stopPc,      \* where Stop is: "idle", "close", "wait", "returned"
    stopRet,     \* what Stop returned
    crashed,     \* the process has died of an unrecovered panic
    \* one worker (handleConnection) per accepted connection
    wpc,         \* "none", "start", "env", "invoke", "handler", "cancel", "close",
                 \* "done", "exited"
    wpath,       \* how the worker left: "env error", "nil", "err", "panic"
    deadline,    \* conn.SetDeadline has been called
    hctx,        \* the handler's context: "none", "live", "cancelled"
    handled,     \* times the handler was invoked for the connection
    connClosed,  \* times conn.Close was called
    wgDone,      \* times the worker called wg.Done
    \* sessions: 0 is the stdin/stdout session of NewWithContext, c >= 1 the
    \* session of connection c
    shdr,        \* the header block the peer sends, as it was composed
    sreader,     \* bytes sent that the session's reader has not returned
    senv,        \* AgiSession.env
    serr,        \* what readEnvironment returned: "unread", "nil" or the error
    nsRet,       \* what NewWithContext returned: "none", "session", "error"
    nsCancelled  \* session 0's cancel func was called (by NewWithContext, or by Close)

varsServer == <<listener, srvCtxDone, wg, servePc, serveRet, nextConn, stopPc, stopRet,
                crashed, wpc, wpath, deadline, hctx, handled, connClosed, wgDone>>

varsEnv == <<shdr, sreader, senv, serr, nsRet, nsCancelled>>

VARIABLES
    \* time, in units of ten seconds, and what a session's user does with it
    age,         \* time since conn.SetDeadline was called on connection c
    hage,        \* time since context.WithTimeout was called for the handler of c
    hlimit,      \* the timeout context.WithTimeout was given
    timeout,     \* AgiSession.timeout
    swritten,    \* command lines the handler's execute calls wrote to connection c
    hres,        \* the error the handler's last execute call returned, "none" before
    closes,      \* how each Close call on the session ended: "nil" or "fault"
    closedAt,    \* calls started on session 0 when its first Close returned, -1 before
    got,         \* the key and the value of the last GetEnv call on session 0
    stopN        \* Stop calls that have returned

varsLife == <<age, hage, hlimit, timeout, swritten, hres, closes, closedAt, got, stopN>>

VARIABLES
    \* one command line put together and taken apart again
    cparts,      \* the argument list given to JoinCommand
    ccmd,        \* the command line JoinCommand returned
    csplit,      \* the list SplitCommand returned for it
    cstep        \* "start", "joined", "split"

varsCmd == <<cparts, ccmd, csplit, cstep>>

vars == <<varsSession, varsServer, varsEnv, varsLife, varsCmd>>

\* bounds
NumCallers == 2
MaxCalls == 3
MaxConns == 2
MaxHeaderLines == 2
MaxStops == 2
MaxCloses == 2
MaxCmds == 1
MaxParts == 2
MaxArgLen == 2

Conns == 1..MaxConns
Sessions == 0..MaxConns

\* durations, in units of fifteen seconds
ConnDeadline == 2      \* conn.SetDeadline(time.Now().Add(30 * time.Second))
DefaultTimeout == 2    \* timeout: 30 * time.Second
\* the durations passed to SetTimeout: shorter and longer than the default
Timeouts == {DefaultTimeout - 1, DefaultTimeout + 1}
\* the longest of the timeouts: a timer that has run this long has passed them all
MaxAge == DefaultTimeout + 1

Callers == 1..NumCallers

NoValue == [key |-> <<>>, val |-> <<>>, called |-> FALSE]
NoResult == [resp |-> NilResponse, err |-> "none", fault |-> FALSE]

(***************************************************************************)
(* execute (one goroutine c): Lock; debug print; write the command and a   *)
(* newline; ReadString('\n'); debug print; parseResponse; deferred Unlock. *)
(***************************************************************************)

\* a wrapper is entered: it formats its command and calls execute
Call(c, op) ==
    /\ cpc[c] = "idle"
    /\ ncalls < MaxCalls
    /\ cpc' = [cpc EXCEPT ![c] = "lock"]
    /\ cop' = [cop EXCEPT ![c] = op]
    /\ cline' = [cline EXCEPT ![c] = <<>>]
    /\ cres' = [cres EXCEPT ![c] = NoResult]
    /\ ncalls' = ncalls + 1
    /\ UNCHANGED <<mutex, writer, rbuf, tstate, debugMode, stderr, nreplied, wlog, rlog>>
    /\ UNCHANGED <<varsServer, varsEnv, varsLife, varsCmd>>

\* Lock that does not wait for the holder
Lock_NoWait(c) ==
    /\ cpc[c] = "lock"
    /\ mutex' = c
    /\ cpc' = [cpc EXCEPT ![c] = "write"]
    /\ UNCHANGED <<writer, rbuf, tstate, debugMode, stderr, cop, cline, cres,
                   ncalls, nreplied, wlog, rlog>>
    /\ UNCHANGED <<varsServer, varsEnv, varsLife, varsCmd>>

\* s.mutex.Lock()
Lock(c) ==
    /\ cpc[c] = "lock"
    /\ mutex = 0
    /\ mutex' = c
    /\ cpc' = [cpc EXCEPT ![c] = "write"]
    /\ UNCHANGED <<writer, rbuf, tstate, debugMode, stderr, cop, cline, cres,
                   ncalls, nreplied, wlog, rlog>>
    /\ UNCHANGED <<varsServer, varsEnv, varsLife, varsCmd>>

DebugPrint(tag, text) ==
    IF debugMode THEN Append(stderr, <<tag, text>>) ELSE stderr

\* fmt.Fprintf(s.writer, "%s\n", command)
Write(c) ==
    /\ cpc[c] = "write"
    /\ stderr' = DebugPrint("AGI Command", CommandOf(cop[c]))
    /\ \/ /\ tstate # "broken"
          /\ writer' = writer \o CommandOf(cop[c]) \o <<NL>>
          /\ wlog' = Append(wlog, c)
          /\ cpc' = [cpc EXCEPT ![c] = "read"]
          /\ UNCHANGED <<mutex, cres>>
       \/ /\ tstate = "broken"
          /\ cres' = [cres EXCEPT ![c] = Returned(NilResponse, "failed to send command")]
          /\ mutex' = 0
          /\ cpc' = [cpc EXCEPT ![c] = "done"]
          /\ UNCHANGED <<writer, wlog>>
    /\ UNCHANGED <<rbuf, tstate, debugMode, cop, cline, ncalls, nreplied, rlog>>
    /\ UNCHANGED <<varsServer, varsEnv, varsLife, varsCmd>>

\* an execute that unlocks only before its last return: the return on a
\* failed read leaves the mutex locked
Read_KeepsLockOnError(c) ==
    /\ cpc[c] = "read"
    /\ LET i == IndexOf(rbuf, NL)
       IN  \/ /\ i > 0
              /\ cline' = [cline EXCEPT ![c] = SubSeq(rbuf, 1, i)]
              /\ rbuf' = SubSeq(rbuf, i + 1, Len(rbuf))
              /\ rlog' = Append(rlog, c)
              /\ cpc' = [cpc EXCEPT ![c] = "parse"]
              /\ UNCHANGED <<mutex, cres>>
           \/ /\ i = 0
              /\ tstate # "open"
              /\ cline' = [cline EXCEPT ![c] = rbuf]
              /\ rbuf' = <<>>
              /\ cres' = [cres EXCEPT ![c] = Returned(NilResponse, "failed to read response")]
              /\ cpc' = [cpc EXCEPT ![c] = "done"]
              /\ UNCHANGED <<mutex, rlog>>
    /\ UNCHANGED <<writer, tstate, debugMode, stderr, cop, ncalls, nreplied, wlog>>
    /\ UNCHANGED <<varsServer, varsEnv, varsLife, varsCmd>>

\* s.reader.ReadString('\n'): the bytes up to and including the first
\* newline; at end of stream whatever is left, with an error
Read(c) ==
    /\ cpc[c] = "read"
    /\ LET i == IndexOf(rbuf, NL)
       IN  \/ /\ i > 0
              /\ cline' = [cline EXCEPT ![c] = SubSeq(rbuf, 1, i)]
              /\ rbuf' = SubSeq(rbuf, i + 1, Len(rbuf))
              /\ rlog' = Append(rlog, c)
              /\ cpc' = [cpc EXCEPT ![c] = "parse"]
              /\ UNCHANGED <<mutex, cres>>
           \/ /\ i = 0
              /\ tstate # "open"
              /\ cline' = [cline EXCEPT ![c] = rbuf]
              /\ rbuf' = <<>>
              /\ cres' = [cres EXCEPT ![c] = Returned(NilResponse, "failed to read response")]
              /\ mutex' = 0
              /\ cpc' = [cpc EXCEPT ![c] = "done"]
              /\ UNCHANGED rlog
    /\ UNCHANGED <<writer, tstate, debugMode, stderr, cop, ncalls, nreplied, wlog>>
    /\ UNCHANGED <<varsServer, varsEnv, varsLife, varsCmd>>

\* return parseResponse(line), with the deferred s.mutex.Unlock()
Return(c) ==
    /\ cpc[c] = "parse"
    /\ stderr' = DebugPrint("AGI Response", cline[c])
    /\ cres' = [cres EXCEPT ![c] = parseResponse(cline[c])]
    /\ mutex' = 0
    /\ cpc' = [cpc EXCEPT ![c] = IF parseResponse(cline[c]).fault THEN "panicked" ELSE "done"]
    /\ UNCHANGED <<writer, rbuf, tstate, debugMode, cop, cline, ncalls, nreplied, wlog, rlog>>
    /\ UNCHANGED <<varsServer, varsEnv, varsLife, varsCmd>>

\* the wrapper has returned ValueOf(cop[c], cres[c]); the goroutine goes on
Finish(c) ==
    /\ cpc[c] = "done"
    /\ cpc' = [cpc EXCEPT ![c] = "idle"]
    /\ UNCHANGED <<mutex, writer, rbuf, tstate, debugMode, stderr, cop, cline, cres,
                   ncalls, nreplied, wlog, rlog>>
    /\ UNCHANGED <<varsServer, varsEnv, varsLife, varsCmd>>

(***************************************************************************)
(* The peer and the reply lines it sends                                   *)
(***************************************************************************)

\* the wire format of a reply: 200 result=<n>, then optionally a space and data
ReplyLine(n, data) ==
    S200 \o <<SP>> \o SResultEq \o Itoa(n) \o (IF data = <<>> THEN <<>> ELSE <<SP>> \o data)

SHello == <<"h", "e", "l", "l", "o">>

\* lines for a preloaded reader (as the tests' mockIO): an optional leading
\* blank, a marker, an optional separator, a code token, a rest, a line end
Leads == {<<>>, <<SP>>}
Markers == {S200, <<"5", "0", "0">>, <<"2", "0">>}
Seps == {<<>>, <<SP>>}
Codes == {<<>>, SResultEq \o <<"1">>, SResultEq \o <<"-", "1">>, SResultEq \o <<"1", "2">>,
          <<"1">>, <<"-", "1">>, <<"x">>}
Rests == {<<>>, <<SP>>, <<SP, "(">> \o SHello \o <<")">>, <<SP>> \o SHello,
          <<SP, "(", "a">>, <<SP, SP, "(", ")", SP>>}
Ends == {<<NL>>, <<CR, NL>>, <<>>}

MockReplies ==
    {lead \o m \o sep \o code \o rest \o end :
        lead \in Leads, m \in Markers, sep \in Seps, code \in Codes, rest \in Rests, end \in Ends}

\* what the peer answers a command with in the concurrent runs
PeerLines == {ReplyLine(0, <<>>) \o <<NL>>,
              S200 \o <<SP, "1", SP>> \o SHello \o <<NL>>,
              <<"5", "0", "0", SP, "x", NL>>}

\* the peer answers one outstanding command
PeerReply(l) ==
    /\ tstate = "open"
    /\ nreplied < Len(wlog)
    /\ rbuf' = rbuf \o l
    /\ nreplied' = nreplied + 1
    /\ UNCHANGED <<mutex, writer, tstate, debugMode, stderr, cpc, cop, cline, cres,
                   ncalls, wlog, rlog>>
    /\ UNCHANGED <<varsServer, varsEnv, varsLife, varsCmd>>

\* the peer hangs up: the stream ends, and writes may start to fail
PeerHangup(how) ==
    /\ tstate = "open"
    /\ tstate' = how
    /\ UNCHANGED <<mutex, writer, rbuf, debugMode, stderr, cpc, cop, cline, cres,
                   ncalls, nreplied, wlog, rlog>>
    /\ UNCHANGED <<varsServer, varsEnv, varsLife, varsCmd>>

(***************************************************************************)
(* The environment block and readEnvironment                               *)
(***************************************************************************)

\* an AGI environment: a finite map from keys to values
EmptyEnv == [k \in {} |-> <<>>]

\* s.env[key] = value
Put(env, key, value) ==
    [k \in DOMAIN env \cup {key} |-> IF k = key THEN value ELSE env[k]]

\* readEnvironment that keeps the first value of a repeated key
RECURSIVE readEnvironment_KeepFirst(_, _)
readEnvironment_KeepFirst(buf, env) ==
    LET i == IndexOf(buf, NL)
    IN  IF i = 0
        THEN [err |-> "failed to read environment line", env |-> env, rest |-> <<>>]
        ELSE LET line  == TrimSpace(SubSeq(buf, 1, i))
                 rest  == SubSeq(buf, i + 1, Len(buf))
                 parts == SplitN2(line, ":")
             IN  IF line = <<>> THEN [err |-> NoErr, env |-> env, rest |-> rest]
                 ELSE IF Len(parts) # 2
                 THEN [err |-> "invalid environment line", env |-> env, rest |-> rest]
                 ELSE readEnvironment_KeepFirst(rest,
                          IF TrimSpace(parts[1]) \in DOMAIN env THEN env
                          ELSE Put(env, TrimSpace(parts[1]), TrimSpace(parts[2])))

\* readEnvironment that skips a line without a separator, as ParseAGIEnv does
RECURSIVE readEnvironment_SkipInvalid(_, _)
readEnvironment_SkipInvalid(buf, env) ==
    LET i == IndexOf(buf, NL)
    IN  IF i = 0
        THEN [err |-> "failed to read environment line", env |-> env, rest |-> <<>>]
        ELSE LET line  == TrimSpace(SubSeq(buf, 1, i))
                 rest  == SubSeq(buf, i + 1, Len(buf))
                 parts == SplitN2(line, ":")
             IN  IF line = <<>> THEN [err |-> NoErr, env |-> env, rest |-> rest]
                 ELSE IF Len(parts) # 2
                 THEN readEnvironment_SkipInvalid(rest, env)
                 ELSE readEnvironment_SkipInvalid(rest,
                          Put(env, TrimSpace(parts[1]), TrimSpace(parts[2])))

\* readEnvironment's loop, on the unread bytes buf: ReadString('\n') (an
\* error when the stream ends, or the deadline passes, before a newline);
\* TrimSpace; an empty line ends the block; SplitN(line, ":", 2) must give
\* two parts; both are trimmed and stored.  Gives the error, the map and the
\* bytes left unread.
RECURSIVE readEnvironment(_, _)
readEnvironment(buf, env) ==
    LET i == IndexOf(buf, NL)
    IN  IF i = 0
        THEN [err |-> "failed to read environment line", env |-> env, rest |-> <<>>]
        ELSE LET line  == TrimSpace(SubSeq(buf, 1, i))
                 rest  == SubSeq(buf, i + 1, Len(buf))
                 parts == SplitN2(line, ":")
             IN  IF line = <<>> THEN [err |-> NoErr, env |-> env, rest |-> rest]
                 ELSE IF Len(parts) # 2
                 THEN [err |-> "invalid environment line", env |-> env, rest |-> rest]
                 ELSE readEnvironment(rest, Put(env, TrimSpace(parts[1]), TrimSpace(parts[2])))

\* the lines a peer may put in a header block: key and value as sent (the
\* line is key ":" value), or a line without a separator
KV(k, v) == [kv |-> TRUE, k |-> k, v |-> v, text |-> k \o <<":">> \o v]
Bad(text) == [kv |-> FALSE, k |-> <<>>, v |-> <<>>, text |-> text]

HeaderEntries ==
    {KV(<<"a">>, <<SP, "1">>),
     KV(<<"a">>, <<"2", CR>>),
     KV(<<"b", SP>>, <<SP, "x", ":", "y">>),
     KV(<<SP, "c">>, <<>>),
     Bad(<<"b", "a", "d">>)}

\* a header block: its lines, the blank line ending it (none: the stream
\* ends instead) and the bytes sent after it
Header(entries, term, trail) == [entries |-> entries, term |-> term, trail |-> trail]

SReply == <<"2", "0", "0", SP, "0", SP, "x", NL>>

Headers ==
    {Header(es, t[1], t[2]) :
        es \in UNION {[1..n -> HeaderEntries] : n \in 0..MaxHeaderLines},
        t \in {<<<<NL>>, <<>>>>, <<<<NL>>, SReply>>, <<<<SP, CR, NL>>, SReply>>, <<<<>>, <<>>>>}}

RECURSIVE Lines(_)
Lines(es) == IF es = <<>> THEN <<>> ELSE Head(es).text \o <<NL>> \o Lines(Tail(es))

\* the bytes of a header block on the wire
Stream(h) == Lines(h.entries) \o h.term \o h.trail

\* the header blocks clients of the server send in the server runs
HOk == Header(<<KV(<<"a">>, <<SP, "1">>)>>, <<NL>>, <<>>)
HBad == Header(<<KV(<<"a">>, <<SP, "1">>), Bad(<<"b", "a", "d">>)>>, <<NL>>, <<>>)
HCut == Header(<<KV(<<"a">>, <<SP, "1">>)>>, <<>>, <<>>)
ClientHeaders == {HOk, HBad, HCut}

NoHeader == Header(<<>>, <<>>, <<>>)

\* session s reads its environment block, sent as h
ReadEnv(s, h) ==
    LET r == readEnvironment(Stream(h), EmptyEnv)
    IN  /\ shdr' = [shdr EXCEPT ![s] = h]
        /\ senv' = [senv EXCEPT ![s] = r.env]
        /\ sreader' = [sreader EXCEPT ![s] = r.rest]
        /\ serr' = [serr EXCEPT ![s] = r.err]

\* NewWithContext: WithCancel, the session on stdin/stdout, readEnvironment;
\* on an error cancel() and (nil, err), else (s, nil)
NewWithContext(h) ==
    /\ nsRet = "none"
    /\ nextConn = 0
    /\ ReadEnv(0, h)
    /\ nsRet' = IF readEnvironment(Stream(h), EmptyEnv).err # NoErr THEN "error" ELSE "session"
    /\ nsCancelled' = (readEnvironment(Stream(h), EmptyEnv).err # NoErr)
    /\ UNCHANGED <<varsSession, varsServer, varsLife, varsCmd>>

(***************************************************************************)
(* What a goroutine holding the session NewWithContext returned may do     *)
(* besides execute: Close, SetDebug, SetTimeout.  None of them takes       *)
(* s.mutex.                                                                *)
(***************************************************************************)

\* Close: s.cancelFunc(); return nil
Close(c) ==
    /\ nsRet = "session"
    /\ cpc[c] = "idle"
    /\ Len(closes[0]) < MaxCloses
    /\ nsCancelled' = TRUE
    /\ closes' = [closes EXCEPT ![0] = Append(@, "nil")]
    /\ closedAt' = IF closedAt = -1 THEN ncalls ELSE closedAt
    /\ UNCHANGED <<shdr, sreader, senv, serr, nsRet>>
    /\ UNCHANGED <<age, hage, hlimit, timeout, swritten, hres, got, stopN>>
    /\ UNCHANGED <<varsSession, varsServer, varsCmd>>

\* SetDebug: s.debugMode = enabled
SetDebug(c, enabled) ==
    /\ nsRet = "session"
    /\ cpc[c] = "idle"
    /\ debugMode' = enabled
    /\ UNCHANGED <<mutex, writer, rbuf, tstate, stderr, cpc, cop, cline, cres,
                   ncalls, nreplied, wlog, rlog>>
    /\ UNCHANGED <<varsServer, varsEnv, varsLife, varsCmd>>

\* SetTimeout: s.timeout = timeout
SetTimeout(c, d) ==
    /\ nsRet = "session"
    /\ cpc[c] = "idle"
    /\ timeout' = [timeout EXCEPT ![0] = d]
    /\ UNCHANGED <<age, hage, hlimit, swritten, hres, closes, closedAt, got, stopN>>
    /\ UNCHANGED <<varsSession, varsServer, varsEnv, varsCmd>>

\* s.env[key]: the value of a key of the map, the empty string for any other
Lookup(env, key) == IF key \in DOMAIN env THEN env[key] ELSE <<>>

\* the keys asked for: one the header blocks of the runs hold, one they do not
EnvKeys == {<<"a">>, <<"z">>}

\* a GetEnv that creates the entry it does not find
GetEnv_Inserts(c, key) ==
    /\ nsRet = "session"
    /\ got' = [key |-> key, val |-> Lookup(senv[0], key), called |-> TRUE]
    /\ senv' = [senv EXCEPT ![0] = Put(@, key, Lookup(@, key))]
    /\ UNCHANGED <<shdr, sreader, serr, nsRet, nsCancelled>>
    /\ UNCHANGED <<age, hage, hlimit, timeout, swritten, hres, closes, closedAt, stopN>>
    /\ UNCHANGED <<varsSession, varsServer, varsCmd>>

\* GetEnv: return s.env[key]; any goroutine, at any time, without the mutex
GetEnv(c, key) ==
    /\ nsRet = "session"
    /\ got' = [key |-> key, val |-> Lookup(senv[0], key), called |-> TRUE]
    /\ UNCHANGED <<age, hage, hlimit, timeout, swritten, hres, closes, closedAt, stopN>>
    /\ UNCHANGED <<varsSession, varsServer, varsEnv, varsCmd>>

(***************************************************************************)
(* The FastAGI server                                                      *)
(***************************************************************************)

\* a Serve that accepts only while no worker is in flight
Accept_WaitsForWorkers ==
    /\ ~crashed
    /\ servePc = "accept"
    /\ listener = "open"
    /\ nextConn < MaxConns
    /\ nsRet = "none"
    /\ wg = 0
    /\ nextConn' = nextConn + 1
    /\ servePc' = "register"
    /\ UNCHANGED <<listener, srvCtxDone, wg, serveRet, stopPc, stopRet, crashed,
                   wpc, wpath, deadline, hctx, handled, connClosed, wgDone>>
    /\ UNCHANGED <<varsSession, varsEnv, varsLife, varsCmd>>

\* Serve: listener.Accept() returns a connection
Accept ==
    /\ ~crashed
    /\ servePc = "accept"
    /\ listener = "open"
    /\ nextConn < MaxConns
    /\ nsRet = "none"
    /\ nextConn' = nextConn + 1
    /\ servePc' = "register"
    /\ UNCHANGED <<listener, srvCtxDone, wg, serveRet, stopPc, stopRet, crashed,
                   wpc, wpath, deadline, hctx, handled, connClosed, wgDone>>
    /\ UNCHANGED <<varsSession, varsEnv, varsLife, varsCmd>>

\* a Serve that reports every failed Accept as an error
AcceptFail_IgnoresStop ==
    /\ ~crashed
    /\ servePc = "accept"
    /\ servePc' = "returned"
    /\ serveRet' = "error"
    /\ srvCtxDone' = TRUE
    /\ UNCHANGED <<listener, wg, nextConn, stopPc, stopRet, crashed,
                   wpc, wpath, deadline, hctx, handled, connClosed, wgDone>>
    /\ UNCHANGED <<varsSession, varsEnv, varsLife, varsCmd>>

\* Serve: Accept fails (the listener is closed, or another fault); Serve
\* returns nil when s.ctx is done and the error otherwise; the deferred
\* cancelFunc() runs
AcceptFail ==
    /\ ~crashed
    /\ servePc = "accept"
    /\ servePc' = "returned"
    /\ serveRet' = IF srvCtxDone THEN "nil" ELSE "error"
    /\ srvCtxDone' = TRUE
    /\ UNCHANGED <<listener, wg, nextConn, stopPc, stopRet, crashed,
                   wpc, wpath, deadline, hctx, handled, connClosed, wgDone>>
    /\ UNCHANGED <<varsSession, varsEnv, varsLife, varsCmd>>

\* a Serve that starts the worker without registering it
Register_Skipped ==
    /\ ~crashed
    /\ servePc = "register"
    /\ servePc' = "spawn"
    /\ UNCHANGED <<listener, srvCtxDone, wg, serveRet, nextConn, stopPc, stopRet, crashed,
                   wpc, wpath, deadline, hctx, handled, connClosed, wgDone>>
    /\ UNCHANGED <<varsSession, varsEnv, varsLife, varsCmd>>

\* Serve: s.wg.Add(1)
Register ==
    /\ ~crashed
    /\ servePc = "register"
    /\ wg' = wg + 1
    /\ servePc' = "spawn"
    /\ UNCHANGED <<listener, srvCtxDone, serveRet, nextConn, stopPc, stopRet, crashed,
                   wpc, wpath, deadline, hctx, handled, connClosed, wgDone>>
    /\ UNCHANGED <<varsSession, varsEnv, varsLife, varsCmd>>

\* Serve: go s.handleConnection(conn)
Spawn ==
    /\ ~crashed
    /\ servePc = "spawn"
    /\ wpc' = [wpc EXCEPT ![nextConn] = "start"]
    /\ servePc' = "accept"
    /\ UNCHANGED <<listener, srvCtxDone, wg, serveRet, nextConn, stopPc, stopRet, crashed,
                   wpath, deadline, hctx, handled, connClosed, wgDone>>
    /\ UNCHANGED <<varsSession, varsEnv, varsLife, varsCmd>>

\* Stop: s.cancelFunc(); Stop may be called again once the call before it
\* has returned
StopCancel ==
    /\ ~crashed
    /\ stopPc = "idle" \/ (stopPc = "returned" /\ stopN < MaxStops)
    /\ srvCtxDone' = TRUE
    /\ stopPc' = "close"
    /\ UNCHANGED <<listener, wg, servePc, serveRet, nextConn, stopRet, crashed,
                   wpc, wpath, deadline, hctx, handled, connClosed, wgDone>>
    /\ UNCHANGED <<varsSession, varsEnv, varsLife, varsCmd>>

\* Stop: err := s.listener.Close()
StopClose ==
    /\ ~crashed
    /\ stopPc = "close"
    /\ listener' = "closed"
    /\ stopRet' = IF listener = "closed" THEN "error" ELSE "nil"
    /\ stopPc' = "wait"
    /\ UNCHANGED <<srvCtxDone, wg, servePc, serveRet, nextConn, crashed,
                   wpc, wpath, deadline, hctx, handled, connClosed, wgDone>>
    /\ UNCHANGED <<varsSession, varsEnv, varsLife, varsCmd>>

\* Stop: s.wg.Wait() returns with the counter at zero; return err
StopWait ==
    /\ ~crashed
    /\ stopPc = "wait"
    /\ wg = 0
    /\ stopPc' = "returned"
    /\ stopN' = stopN + 1
    /\ UNCHANGED <<listener, srvCtxDone, wg, servePc, serveRet, nextConn, stopRet, crashed,
                   wpc, wpath, deadline, hctx, handled, connClosed, wgDone>>
    /\ UNCHANGED <<age, hage, hlimit, timeout, swritten, hres, closes, closedAt, got>>
    /\ UNCHANGED <<varsSession, varsEnv, varsCmd>>

(***************************************************************************)
(* handleConnection (worker of connection c).  Its deferred calls run in   *)
(* reverse order on every way out: cancel() once the context exists,       *)
(* conn.Close(), wg.Done().  Nothing recovers a panic, so after the        *)
(* deferred calls of a panicking worker have run the process dies.         *)
(***************************************************************************)

\* a worker that sets no deadline on its connection
WorkerStart_NoDeadline(c) ==
    /\ ~crashed
    /\ wpc[c] = "start"
    /\ wpc' = [wpc EXCEPT ![c] = "env"]
    /\ UNCHANGED <<listener, srvCtxDone, wg, servePc, serveRet, nextConn, stopPc, stopRet,
                   crashed, wpath, deadline, hctx, handled, connClosed, wgDone>>
    /\ UNCHANGED <<varsSession, varsEnv, varsLife, varsCmd>>

\* conn.SetDeadline(now + 30s) and the session literal
WorkerStart(c) ==
    /\ ~crashed
    /\ wpc[c] = "start"
    /\ deadline' = [deadline EXCEPT ![c] = TRUE]
    /\ wpc' = [wpc EXCEPT ![c] = "env"]
    /\ UNCHANGED <<listener, srvCtxDone, wg, servePc, serveRet, nextConn, stopPc, stopRet,
                   crashed, wpath, hctx, handled, connClosed, wgDone>>
    /\ UNCHANGED <<varsSession, varsEnv, varsLife, varsCmd>>

\* a worker that goes on to the handler whatever readEnvironment returned
WorkerReadEnv_IgnoresError(c, h) ==
    /\ ~crashed
    /\ wpc[c] = "env"
    /\ age[c] < ConnDeadline
    /\ ReadEnv(c, h)
    /\ wpc' = [wpc EXCEPT ![c] = "invoke"]
    /\ UNCHANGED <<listener, srvCtxDone, wg, servePc, serveRet, nextConn, stopPc, stopRet,
                   crashed, wpath, deadline, hctx, handled, connClosed, wgDone>>
    /\ UNCHANGED <<varsSession, nsRet, nsCancelled, varsLife, varsCmd>>

\* session.readEnvironment() on what the peer sent before the deadline: on an
\* error the worker logs and returns
WorkerReadEnv(c, h) ==
    /\ ~crashed
    /\ wpc[c] = "env"
    /\ age[c] < ConnDeadline
    /\ ReadEnv(c, h)
    /\ IF readEnvironment(Stream(h), EmptyEnv).err # NoErr
       THEN /\ wpc' = [wpc EXCEPT ![c] = "close"]
            /\ wpath' = [wpath EXCEPT ![c] = "env error"]
       ELSE /\ wpc' = [wpc EXCEPT ![c] = "invoke"]
            /\ UNCHANGED wpath
    /\ UNCHANGED <<listener, srvCtxDone, wg, servePc, serveRet, nextConn, stopPc, stopRet,
                   crashed, deadline, hctx, handled, connClosed, wgDone>>
    /\ UNCHANGED <<varsSession, nsRet, nsCancelled, varsLife, varsCmd>>

\* session.readEnvironment() with the peer silent until the deadline: the
\* blocked ReadString fails, the worker logs and returns
WorkerEnvTimeout(c) ==
    /\ ~crashed
    /\ wpc[c] = "env"
    /\ age[c] >= ConnDeadline
    /\ serr' = [serr EXCEPT ![c] = "failed to read environment line"]
    /\ wpc' = [wpc EXCEPT ![c] = "close"]
    /\ wpath' = [wpath EXCEPT ![c] = "env error"]
    /\ UNCHANGED <<listener, srvCtxDone, wg, servePc, serveRet, nextConn, stopPc, stopRet,
                   crashed, deadline, hctx, handled, connClosed, wgDone>>
    /\ UNCHANGED <<shdr, sreader, senv, nsRet, nsCancelled>>
    /\ UNCHANGED <<varsSession, varsLife, varsCmd>>

(***************************************************************************)
(* What the handler does with the context and the session it was given.    *)
(* The session is the literal of handleConnection: its ctx and cancelFunc  *)
(* are nil.                                                                *)
(***************************************************************************)

\* <-ctx.Done() of the handler's context is ready: the worker's deferred
\* cancel() ran, or s.ctx was cancelled, or the timeout given to WithTimeout
\* has elapsed
HandlerCtxDone(c) ==
    \/ hctx[c] = "cancelled"
    \/ hctx[c] = "live" /\ (srvCtxDone \/ hage[c] >= hlimit[c])

\* the handler calls execute: the command line is written and the call
\* waits in ReadString; past the deadline the write fails and execute
\* returns the error
HandlerSend(c) ==
    /\ ~crashed
    /\ wpc[c] = "handler"
    /\ swritten[c] < MaxCmds
    /\ IF age[c] < ConnDeadline
       THEN /\ swritten' = [swritten EXCEPT ![c] = swritten[c] + 1]
            /\ wpc' = [wpc EXCEPT ![c] = "exec"]
            /\ UNCHANGED hres
       ELSE /\ hres' = [hres EXCEPT ![c] = "failed to send command"]
            /\ hres[c] # "failed to send command"
            /\ UNCHANGED <<swritten, wpc>>
    /\ UNCHANGED <<listener, srvCtxDone, wg, servePc, serveRet, nextConn, stopPc, stopRet,
                   crashed, wpath, deadline, hctx, handled, connClosed, wgDone>>
    /\ UNCHANGED <<age, hage, hlimit, timeout, closes, closedAt, got, stopN>>
    /\ UNCHANGED <<varsSession, varsEnv, varsCmd>>

\* the peer's reply line l arrives before the deadline; execute returns
\* parseResponse(l)
HandlerRecv(c, l) ==
    /\ ~crashed
    /\ wpc[c] = "exec"
    /\ age[c] < ConnDeadline
    /\ hres' = [hres EXCEPT ![c] = parseResponse(l).err]
    /\ wpc' = [wpc EXCEPT ![c] = "handler"]
    /\ UNCHANGED <<listener, srvCtxDone, wg, servePc, serveRet, nextConn, stopPc, stopRet,
                   crashed, wpath, deadline, hctx, handled, connClosed, wgDone>>
    /\ UNCHANGED <<age, hage, hlimit, timeout, swritten, closes, closedAt, got, stopN>>
    /\ UNCHANGED <<varsSession, varsEnv, varsCmd>>

\* no reply has arrived when the deadline passes: ReadString fails and
\* execute returns the error
HandlerReadTimeout(c) ==
    /\ ~crashed
    /\ wpc[c] = "exec"
    /\ age[c] >= ConnDeadline
    /\ hres' = [hres EXCEPT ![c] = "failed to read response"]
    /\ wpc' = [wpc EXCEPT ![c] = "handler"]
    /\ UNCHANGED <<listener, srvCtxDone, wg, servePc, serveRet, nextConn, stopPc, stopRet,
                   crashed, wpath, deadline, hctx, handled, connClosed, wgDone>>
    /\ UNCHANGED <<age, hage, hlimit, timeout, swritten, closes, closedAt, got, stopN>>
    /\ UNCHANGED <<varsSession, varsEnv, varsCmd>>

\* the handler calls s.SetTimeout(d)
HandlerSetTimeout(c, d) ==
    /\ ~crashed
    /\ wpc[c] = "handler"
    /\ timeout[c] # d
    /\ timeout' = [timeout EXCEPT ![c] = d]
    /\ UNCHANGED <<age, hage, hlimit, swritten, hres, closes, closedAt, got, stopN>>
    /\ UNCHANGED <<varsSession, varsServer, varsEnv, varsCmd>>

\* the handler calls s.Close(): s.cancelFunc is nil, the call panics and the
\* panic unwinds the handler
HandlerClose(c) ==
    /\ ~crashed
    /\ wpc[c] = "handler"
    /\ closes' = [closes EXCEPT ![c] = Append(@, "fault")]
    /\ wpath' = [wpath EXCEPT ![c] = "panic"]
    /\ wpc' = [wpc EXCEPT ![c] = "cancel"]
    /\ UNCHANGED <<listener, srvCtxDone, wg, servePc, serveRet, nextConn, stopPc, stopRet,
                   crashed, deadline, hctx, handled, connClosed, wgDone>>
    /\ UNCHANGED <<age, hage, hlimit, timeout, swritten, hres, closedAt, got, stopN>>
    /\ UNCHANGED <<varsSession, varsEnv, varsCmd>>

\* a worker whose deadline or handler timer is running
Timed(c) ==
    \/ deadline[c] /\ wpc[c] # "exited" /\ age[c] < ConnDeadline
    \/ hctx[c] = "live" /\ hage[c] < MaxAge

\* time passes: every running timer advances by one unit
Tick ==
    /\ ~crashed
    /\ \E c \in Conns : Timed(c)
    /\ age' = [c \in Conns |->
                 IF deadline[c] /\ wpc[c] # "exited" /\ age[c] < ConnDeadline
                 THEN age[c] + 1 ELSE age[c]]
    /\ hage' = [c \in Conns |->
                 IF hctx[c] = "live" /\ hage[c] < MaxAge THEN hage[c] + 1 ELSE hage[c]]
    /\ UNCHANGED <<hlimit, timeout, swritten, hres, closes, closedAt, got, stopN>>
    /\ UNCHANGED <<varsSession, varsServer, varsEnv, varsCmd>>

\* context.WithTimeout(s.ctx, session.timeout), defer cancel(), and the call
\* of s.handler.Handle(ctx, session)
WorkerInvoke(c) ==
    /\ ~crashed
    /\ wpc[c] = "invoke"
    /\ hctx' = [hctx EXCEPT ![c] = "live"]
    /\ handled' = [handled EXCEPT ![c] = handled[c] + 1]
    /\ wpc' = [wpc EXCEPT ![c] = "handler"]
    /\ hlimit' = [hlimit EXCEPT ![c] = timeout[c]]
    /\ UNCHANGED <<listener, srvCtxDone, wg, servePc, serveRet, nextConn, stopPc, stopRet,
                   crashed, wpath, deadline, connClosed, wgDone>>
    /\ UNCHANGED <<age, hage, timeout, swritten, hres, closes, closedAt, got, stopN>>
    /\ UNCHANGED <<varsSession, varsEnv, varsCmd>>

\* the handler returns nil, returns an error (logged), or panics
HandlerReturn(c, how) ==
    /\ ~crashed
    /\ wpc[c] = "handler"
    /\ wpath' = [wpath EXCEPT ![c] = how]
    /\ wpc' = [wpc EXCEPT ![c] = "cancel"]
    /\ UNCHANGED <<listener, srvCtxDone, wg, servePc, serveRet, nextConn, stopPc, stopRet,
                   crashed, deadline, hctx, handled, connClosed, wgDone>>
    /\ UNCHANGED <<varsSession, varsEnv, varsLife, varsCmd>>

\* deferred cancel()
DeferredCancel(c) ==
    /\ ~crashed
    /\ wpc[c] = "cancel"
    /\ hctx' = [hctx EXCEPT ![c] = "cancelled"]
    /\ wpc' = [wpc EXCEPT ![c] = "close"]
    /\ UNCHANGED <<listener, srvCtxDone, wg, servePc, serveRet, nextConn, stopPc, stopRet,
                   crashed, wpath, deadline, handled, connClosed, wgDone>>
    /\ UNCHANGED <<varsSession, varsEnv, varsLife, varsCmd>>

\* a worker that leaves without closing its connection
DeferredClose_Skipped(c) ==
    /\ ~crashed
    /\ wpc[c] = "close"
    /\ wpc' = [wpc EXCEPT ![c] = "done"]
    /\ UNCHANGED <<listener, srvCtxDone, wg, servePc, serveRet, nextConn, stopPc, stopRet,
                   crashed, wpath, deadline, hctx, handled, connClosed, wgDone>>
    /\ UNCHANGED <<varsSession, varsEnv, varsLife, varsCmd>>

\* deferred conn.Close()
DeferredClose(c) ==
    /\ ~crashed
    /\ wpc[c] = "close"
    /\ connClosed' = [connClosed EXCEPT ![c] = connClosed[c] + 1]
    /\ wpc' = [wpc EXCEPT ![c] = "done"]
    /\ UNCHANGED <<listener, srvCtxDone, wg, servePc, serveRet, nextConn, stopPc, stopRet,
                   crashed, wpath, deadline, hctx, handled, wgDone>>
    /\ UNCHANGED <<varsSession, varsEnv, varsLife, varsCmd>>

\* deferred s.wg.Done(); the goroutine ends, and a panic that reached the top
\* of the goroutine ends the process
DeferredDone(c) ==
    /\ ~crashed
    /\ wpc[c] = "done"
    /\ wg' = wg - 1
    /\ wgDone' = [wgDone EXCEPT ![c] = wgDone[c] + 1]
    /\ wpc' = [wpc EXCEPT ![c] = "exited"]
    /\ crashed' = (wpath[c] = "panic")
    /\ UNCHANGED <<listener, srvCtxDone, servePc, serveRet, nextConn, stopPc, stopRet,
                   wpath, deadline, hctx, handled, connClosed>>
    /\ UNCHANGED <<varsSession, varsEnv, varsLife, varsCmd>>

(***************************************************************************)
(* Command lines: EscapeString, JoinCommand, SplitCommand                  *)
(***************************************************************************)

BS == "\\"
DQ == "\""

\* strings.ReplaceAll(s, ch, rep) for a one-character ch
RECURSIVE ReplaceAll(_, _, _)
ReplaceAll(s, ch, rep) ==
    IF s = <<>> THEN <<>>
    ELSE (IF Head(s) = ch THEN rep ELSE <<Head(s)>>) \o ReplaceAll(Tail(s), ch, rep)

\* EscapeString: every backslash doubled, then every double quote given a
\* backslash
EscapeString(s) == ReplaceAll(ReplaceAll(s, BS, <<BS, BS>>), DQ, <<BS, DQ>>)

\* strings.ContainsAny(part, " \"")
NeedsQuotes(part) == \E i \in 1..Len(part) : part[i] \in {SP, DQ}

\* strings.Join(escaped, " ")
RECURSIVE Join(_)
Join(strs) ==
    IF strs = <<>> THEN <<>>
    ELSE IF Len(strs) = 1 THEN strs[1]
    ELSE strs[1] \o <<SP>> \o Join(Tail(strs))

\* JoinCommand: a part holding a space or a double quote is escaped and
\* wrapped in double quotes, any other part is taken as it is
JoinCommand(parts) ==
    Join([i \in 1..Len(parts) |->
            IF NeedsQuotes(parts[i]) THEN Quoted(EscapeString(parts[i])) ELSE parts[i]])

\* the loop of SplitCommand from character i on, with the parts found so
\* far, the part being built, and the two flags
RECURSIVE SplitFrom(_, _, _, _, _, _)
SplitFrom(cmd, i, parts, current, inQuotes, escaped) ==
    IF i > Len(cmd)
    THEN IF Len(current) > 0 THEN Append(parts, current) ELSE parts
    ELSE LET c == cmd[i]
         IN  IF escaped THEN SplitFrom(cmd, i + 1, parts, Append(current, c), inQuotes, FALSE)
             ELSE IF c = BS THEN SplitFrom(cmd, i + 1, parts, current, inQuotes, TRUE)
             ELSE IF c = DQ THEN SplitFrom(cmd, i + 1, parts, current, ~inQuotes, FALSE)
             ELSE IF c = SP
             THEN IF inQuotes THEN SplitFrom(cmd, i + 1, parts, Append(current, c), inQuotes, FALSE)
                  ELSE IF Len(current) > 0
                  THEN SplitFrom(cmd, i + 1, Append(parts, current), <<>>, inQuotes, FALSE)
                  ELSE SplitFrom(cmd, i + 1, parts, current, inQuotes, FALSE)
             ELSE SplitFrom(cmd, i + 1, parts, Append(current, c), inQuotes, FALSE)

SplitCommand(cmd) == SplitFrom(cmd, 1, <<>>, <<>>, FALSE, FALSE)

\* the arguments: non-empty strings of up to MaxArgLen characters over a
\* letter, the space, the double quote and the backslash
ArgChars == {"a", SP, DQ, BS}
Args == UNION {[1..n -> ArgChars] : n \in 1..MaxArgLen}
ArgLists == UNION {[1..n -> Args] : n \in 0..MaxParts}

\* cmd := JoinCommand(parts)
DoJoin ==
    /\ cstep = "start"
    /\ ccmd' = JoinCommand(cparts)
    /\ cstep' = "joined"
    /\ UNCHANGED <<cparts, csplit>>
    /\ UNCHANGED <<varsSession, varsServer, varsEnv, varsLife>>

\* SplitCommand(cmd)
DoSplit ==
    /\ cstep = "joined"
    /\ csplit' = SplitCommand(ccmd)
    /\ cstep' = "split"
    /\ UNCHANGED <<cparts, ccmd>>
    /\ UNCHANGED <<varsSession, varsServer, varsEnv, varsLife>>

(***************************************************************************)
(* Specifications                                                          *)
(***************************************************************************)

InitCallers ==
    /\ mutex = 0
    /\ writer = <<>>
    /\ stderr = <<>>
    /\ cpc = [c \in Callers |-> "idle"]
    /\ cop = [c \in Callers |-> "Answer"]
    /\ cline = [c \in Callers |-> <<>>]
    /\ cres = [c \in Callers |-> NoResult]
    /\ ncalls = 0
    /\ nreplied = 0
    /\ wlog = <<>>
    /\ rlog = <<>>

\* NewFastAGIServer has returned: listening, nothing accepted
InitServer ==
    /\ listener = "open"
    /\ srvCtxDone = FALSE
    /\ wg = 0
    /\ servePc = "accept"
    /\ serveRet = "none"
    /\ nextConn = 0
    /\ stopPc = "idle"
    /\ stopRet = "none"
    /\ crashed = FALSE
    /\ wpc = [c \in Conns |-> "none"]
    /\ wpath = [c \in Conns |-> "none"]
    /\ deadline = [c \in Conns |-> FALSE]
    /\ hctx = [c \in Conns |-> "none"]
    /\ handled = [c \in Conns |-> 0]
    /\ connClosed = [c \in Conns |-> 0]
    /\ wgDone = [c \in Conns |-> 0]

\* no session has read anything
InitEnv ==
    /\ shdr = [s \in Sessions |-> NoHeader]
    /\ sreader = [s \in Sessions |-> <<>>]
    /\ senv = [s \in Sessions |-> EmptyEnv]
    /\ serr = [s \in Sessions |-> "unread"]
    /\ nsRet = "none"
    /\ nsCancelled = FALSE

InitIdleSession ==
    /\ InitCallers
    /\ rbuf = <<>>
    /\ tstate = "open"
    /\ debugMode = FALSE

\* no time has passed, every session has the timeout of its literal, nothing
\* was closed or stopped
InitLife ==
    /\ age = [c \in Conns |-> 0]
    /\ hage = [c \in Conns |-> 0]
    /\ hlimit = [c \in Conns |-> 0]
    /\ timeout = [s \in Sessions |-> DefaultTimeout]
    /\ swritten = [c \in Conns |-> 0]
    /\ hres = [c \in Conns |-> "none"]
    /\ closes = [s \in Sessions |-> <<>>]
    /\ closedAt = -1
    /\ got = NoValue
    /\ stopN = 0

\* no command line is being put together
InitNoCmd ==
    /\ cparts = <<>>
    /\ ccmd = <<>>
    /\ csplit = <<>>
    /\ cstep = "start"

\* the server: Serve, Stop and the workers of up to MaxConns connections
Init == InitServer /\ InitEnv /\ InitIdleSession /\ InitLife /\ InitNoCmd

Next ==
    \/ Accept
    \/ AcceptFail
    \/ Register
    \/ Spawn
    \/ StopCancel
    \/ StopClose
    \/ StopWait
    \/ \E c \in Conns : WorkerStart(c)
    \/ \E c \in Conns, h \in ClientHeaders : WorkerReadEnv(c, h)
    \/ \E c \in Conns : WorkerInvoke(c)
    \/ \E c \in Conns, how \in {"nil", "err", "panic"} : HandlerReturn(c, how)
    \/ \E c \in Conns : DeferredCancel(c)
    \/ \E c \in Conns : DeferredClose(c)
    \/ \E c \in Conns : DeferredDone(c)

Spec == Init /\ [][Next]_vars

\* session construction on every header block: one accepted connection, or
\* one NewWithContext on stdin
NextConn ==
    \/ nextConn = 0 /\ Accept
    \/ Register
    \/ Spawn
    \/ WorkerStart(1)
    \/ \E h \in Headers : WorkerReadEnv(1, h)
    \/ WorkerInvoke(1)
    \/ \E how \in {"nil", "err", "panic"} : HandlerReturn(1, how)
    \/ DeferredCancel(1)
    \/ DeferredClose(1)
    \/ DeferredDone(1)
    \/ \E h \in Headers : NewWithContext(h)

SpecConn == Init /\ [][NextConn]_vars

\* one execute on a session whose reader is preloaded and whose writer is a
\* buffer (or fails), debug mode set either way beforehand
InitCodec ==
    /\ InitServer
    /\ InitEnv
    /\ InitCallers
    /\ rbuf \in MockReplies
    /\ tstate \in {"eof", "broken"}
    /\ debugMode \in BOOLEAN
    /\ InitLife
    /\ InitNoCmd

NextCodec ==
    \/ ncalls = 0 /\ \E op \in Ops : Call(1, op)
    \/ Lock(1)
    \/ Write(1)
    \/ Read(1)
    \/ Return(1)

SpecCodec == InitCodec /\ [][NextCodec]_vars

\* the life of a session on either construction path, with time passing:
\* a server with one connection, its worker and what its handler does with
\* the session; or a process that calls NewWithContext and whose goroutines
\* use the session it returned (goroutine 1 issues the commands, any
\* goroutine closes and configures the session)
NextLife ==
    \/ nextConn = 0 /\ Accept
    \/ nsRet = "none" /\ AcceptFail
    \/ Register
    \/ Spawn
    \/ nsRet = "none" /\ StopCancel
    \/ StopClose
    \/ StopWait
    \/ WorkerStart(1)
    \/ \E h \in ClientHeaders : WorkerReadEnv(1, h)
    \/ WorkerEnvTimeout(1)
    \/ WorkerInvoke(1)
    \/ HandlerSend(1)
    \/ \E l \in PeerLines : HandlerRecv(1, l)
    \/ HandlerReadTimeout(1)
    \/ \E d \in Timeouts : HandlerSetTimeout(1, d)
    \/ HandlerClose(1)
    \/ \E how \in {"nil", "err", "panic"} : HandlerReturn(1, how)
    \/ DeferredCancel(1)
    \/ DeferredClose(1)
    \/ DeferredDone(1)
    \/ Tick
    \/ \E h \in ClientHeaders : servePc = "accept" /\ stopPc = "idle" /\ NewWithContext(h)
    \/ nsRet = "session" /\ Call(1, "Answer")
    \/ Lock(1)
    \/ Write(1)
    \/ Read(1)
    \/ Return(1)
    \/ Finish(1)
    \/ PeerReply(ReplyLine(0, <<>>) \o <<NL>>)
    \/ \E c \in Callers : Close(c)
    \/ \E c \in Callers, enabled \in BOOLEAN : SetDebug(c, enabled)
    \/ \E c \in Callers, d \in Timeouts : SetTimeout(c, d)
    \/ \E c \in Callers, key \in EnvKeys : GetEnv(c, key)

SpecLife == Init /\ [][NextLife]_vars

\* the same, with what the runtime guarantees: time passes, and a goroutine
\* that can take its next step takes it.  Nothing is assumed of the peer,
\* of the caller of Stop, or of the handler, which is the user's code.
FairLife ==
    /\ WF_vars(Tick)
    /\ WF_vars(Register)
    /\ WF_vars(Spawn)
    /\ WF_vars(StopClose)
    /\ WF_vars(StopWait)
    /\ WF_vars(WorkerStart(1))
    /\ WF_vars(WorkerEnvTimeout(1))
    /\ WF_vars(WorkerInvoke(1))
    /\ WF_vars(HandlerReadTimeout(1))
    /\ WF_vars(DeferredCancel(1))
    /\ WF_vars(DeferredClose(1))
    /\ WF_vars(DeferredDone(1))

SpecLive == Init /\ [][NextLife]_vars /\ FairLife

\* a command line put together from each argument list and taken apart again
InitCmd ==
    /\ InitServer
    /\ InitEnv
    /\ InitIdleSession
    /\ InitLife
    /\ cparts \in ArgLists
    /\ ccmd = <<>>
    /\ csplit = <<>>
    /\ cstep = "start"

NextCmd ==
    \/ DoJoin
    \/ DoSplit

SpecCmd == InitCmd /\ [][NextCmd]_vars

\* several goroutines calling into one session connected to a live peer
ExecOps == {"Answer", "GetOption"}

InitExec == Init

NextExec ==
    \/ \E c \in Callers, op \in ExecOps : Call(c, op)
    \/ \E c \in Callers : Lock(c)
    \/ \E c \in Callers : Write(c)
    \/ \E c \in Callers : Read(c)
    \/ \E c \in Callers : Return(c)
    \/ \E c \in Callers : Finish(c)
    \/ \E l \in PeerLines : PeerReply(l)
    \/ \E how \in {"eof", "broken"} : PeerHangup(how)

SpecExec == InitExec /\ [][NextExec]_vars

(***************************************************************************)
(* Properties of the codec and of concurrent callers                       *)
(***************************************************************************)

\* callers between Lock and the deferred Unlock
InFlight == {c \in Callers : cpc[c] \in {"write", "read", "parse"}}

\* caller c's execute has read a line and returned
Parsed(c) == cpc[c] \in {"done", "panicked"} /\ cline[c] # <<>> /\ cline[c][Len(cline[c])] = NL
             /\ cres[c].err \notin {"failed to read response", "failed to send command"}

\* result codes and data parts of the wire-format lines the properties range over
ReplyCodes == {1, -1, 12}
ReplyDatas == {<<>>, <<"(">> \o SHello \o <<")">>, SHello, <<"(", "a">>, <<"(", ")">>}

\* data with one leading "(" and one trailing ")" removed when both are there
Unwrapped(d) ==
    IF HasPrefix(d, <<"(">>) /\ HasSuffix(d, <<")">>) /\ Len(d) >= 2
    THEN SubSeq(d, 2, Len(d) - 1) ELSE d

\* C1: at most one command is in flight on a session; while a caller is
\* between its write and its read it is the last writer and every earlier
\* command has had its reply read; the k-th reply line is read by the caller
\* that wrote the k-th command.
C1_OneCommandInFlight ==
    /\ Cardinality(InFlight) <= 1
    /\ Len(rlog) <= Len(wlog)
    /\ rlog = SubSeq(wlog, 1, Len(rlog))
    /\ \A c \in Callers :
          cpc[c] \in {"read", "parse"} => wlog # <<>> /\ wlog[Len(wlog)] = c
    /\ \A c \in Callers : cpc[c] = "parse" => rlog = wlog

\* C1 witness: one caller has completed a round trip and waits for the lock
\* again while another caller is between its write and its read.
C1_Witness ==
    \E c, d \in Callers :
        /\ c # d
        /\ cpc[c] = "read"
        /\ cpc[d] = "lock"
        /\ wlog = <<d, c>>
        /\ rlog = <<d>>

\* C3: every line that trims to 200 result=<n>, with or without a data part,
\* parses to a reply with Status 1, Result n and Raw the trimmed line.
C3_WellFormedReplyParses ==
    \A n \in ReplyCodes, d \in ReplyDatas :
        (Parsed(1) /\ TrimSpace(cline[1]) = ReplyLine(n, d)) =>
            /\ ~cres[1].fault
            /\ cres[1].err = NoErr
            /\ ~cres[1].resp.nil
            /\ cres[1].resp.Status = 1
            /\ cres[1].resp.Result = n
            /\ cres[1].resp.Raw = TrimSpace(cline[1])

\* C4: the reply of a success line carries as Data the trimmed text after
\* the result code, with one pair of wrapping parentheses removed, and empty
\* Data when nothing follows the code.
C4_DataUnwrapped ==
    \A n \in ReplyCodes, d \in ReplyDatas :
        (Parsed(1) /\ TrimSpace(cline[1]) = ReplyLine(n, d)) =>
            /\ ~cres[1].resp.nil
            /\ cres[1].resp.Data = Unwrapped(d)

C8_ExecuteRoundTrip ==
    Parsed(1) =>
        /\ writer = CommandOf(cop[1]) \o <<NL>>
        /\ IndexOf(cline[1], NL) = Len(cline[1])
        /\ \A n \in ReplyCodes \cup {0}, d \in ReplyDatas :
              TrimSpace(cline[1]) = ReplyLine(n, d) =>
                  ~cres[1].fault /\ cres[1].err = NoErr /\ ~cres[1].resp.nil

\* C9: for the reply 200 result=-1 execute returns Result -1 and no error,
\* and GetOption, SayNumber, SayDigits, SayDateTime, RecordFile and
\* ReceiveChar return the empty string and no error.
C9_MinusOneIsEmptyValue ==
    (Parsed(1) /\ TrimSpace(cline[1]) = ReplyLine(-1, <<>>)) =>
        /\ cres[1].err = NoErr
        /\ cres[1].resp.Result = -1
        /\ cop[1] # "Answer" => ValueOf(cop[1], cres[1]) = Value(<<>>, NoErr)


(***************************************************************************)
(* Properties of session construction and of the server                    *)
(***************************************************************************)

\* a block of key: value lines ended by a blank line
ValidBlock(h) == h.term # <<>> /\ \A i \in 1..Len(h.entries) : h.entries[i].kv

\* a block with a non-blank line that has no separator
HasBadLine(h) == \E i \in 1..Len(h.entries) : ~h.entries[i].kv

\* the value sent last for a key
LastValue(h, key) ==
    LET last == CHOOSE i \in 1..Len(h.entries) :
                    /\ TrimSpace(h.entries[i].k) = key
                    /\ \A j \in (i + 1)..Len(h.entries) : TrimSpace(h.entries[j].k) # key
    IN  TrimSpace(h.entries[last].v)

\* C2: once Stop has returned the listener is closed and no worker of an
\* accepted connection is running.
C2_StopWaitsForEveryWorker ==
    stopPc = "returned" =>
        /\ listener = "closed"
        /\ \A c \in Conns : wpc[c] \in {"none", "exited"}

\* C6: for a block of key: value lines ended by a blank line readEnvironment
\* returns nil, the map holds exactly the trimmed keys sent, each with the
\* trimmed value sent last for it, and the bytes after the blank line are
\* still unread.
C6_EnvironmentRead ==
    \A s \in Sessions :
        (serr[s] # "unread" /\ ValidBlock(shdr[s])) =>
            /\ serr[s] = NoErr
            /\ DOMAIN senv[s] = {TrimSpace(shdr[s].entries[i].k) : i \in 1..Len(shdr[s].entries)}
            /\ \A key \in DOMAIN senv[s] : senv[s][key] = LastValue(shdr[s], key)
            /\ sreader[s] = shdr[s].trail

\* C6 witness: a block with a repeated key and a reply line after the blank
\* line has been read.
C6_Witness ==
    \E s \in Sessions :
        /\ serr[s] = NoErr
        /\ shdr[s].entries = <<KV(<<"a">>, <<SP, "1">>), KV(<<"a">>, <<"2", CR>>)>>
        /\ shdr[s].trail = SReply
        /\ senv[s][<<"a">>] = <<"2">>
        /\ sreader[s] = SReply

\* C7: when the block has a non-blank line without a separator,
\* readEnvironment fails; the worker leaves without creating the handler's
\* context or invoking the handler, and NewWithContext cancels and returns
\* an error and no session.
C7_BadLineFailsConstruction ==
    /\ \A c \in Conns :
          (serr[c] # "unread" /\ HasBadLine(shdr[c])) =>
              /\ serr[c] = "invalid environment line"
              /\ handled[c] = 0
              /\ hctx[c] = "none"
              /\ wpath[c] = "env error"
              /\ wpc[c] \in {"close", "done", "exited"}
    /\ (serr[0] # "unread" /\ HasBadLine(shdr[0])) =>
          /\ serr[0] = "invalid environment line"
          /\ nsRet = "error"
          /\ nsCancelled

\* C7 witness: a worker has exited on a block whose second line has no
\* separator.
C7_Witness ==
    /\ wpc[1] = "exited"
    /\ Len(shdr[1].entries) = 2
    /\ shdr[1].entries[1].kv
    /\ ~shdr[1].entries[2].kv
    /\ handled[1] = 0

\* C10: a worker closes its connection once and decrements the counter once,
\* the close before the decrement, and has done both when it has exited,
\* whichever way it left.
C10_ClosedAndDoneOnce ==
    \A c \in Conns :
        /\ connClosed[c] = (IF wpc[c] \in {"done", "exited"} THEN 1 ELSE 0)
        /\ wgDone[c] = (IF wpc[c] = "exited" THEN 1 ELSE 0)
        /\ wpc[c] = "exited" => wpath[c] \in {"env error", "nil", "err", "panic"}

\* C10 witness: one worker has left on an environment error and another on a
\* panic of its handler.
C10_Witness ==
    \E c, d \in Conns :
        /\ wpc[c] = "exited" /\ wpath[c] = "env error"
        /\ wpc[d] = "exited" /\ wpath[d] = "panic"

(***************************************************************************)
(* Properties of the server's failure handling and shutdown                *)
(***************************************************************************)

\* C11: a panic raised inside one connection's handler never terminates the
\* accept loop or another connection's worker: once a worker has left by a
\* panic the process is still running (Serve can still accept, the other
\* workers can still take their steps).
C11_PanicIsContained ==
    \A c \in Conns : (wpath[c] = "panic" /\ wpc[c] = "exited") => ~crashed

\* C12: Serve returns nil when its Accept fails after Stop was invoked (Stop
\* cancels the server's context before it closes the listener, so this holds
\* in every interleaving), returns an error when Accept fails while Stop was
\* not invoked, and the first Stop call returns no error.
C12_ServeAndFirstStopResults ==
    /\ [][(servePc = "accept" /\ servePc' = "returned") =>
            serveRet' = IF stopPc # "idle" THEN "nil" ELSE "error"]_vars
    /\ []((stopN = 1 /\ stopPc = "returned") => stopRet = "nil")

\* Stop closed the listener under a pending Accept, Serve returned nil and
\* the first Stop returned nil
C12_Witness ==
    /\ listener = "closed"
    /\ servePc = "returned"
    /\ serveRet = "nil"
    /\ stopN = 1
    /\ stopPc = "returned"
    /\ stopRet = "nil"

\* Accept failed with the server not stopped and Serve returned the error
C12_WitnessError ==
    /\ stopPc = "idle"
    /\ servePc = "returned"
    /\ serveRet = "error"

\* C19: Stop is idempotent: a second, sequential call of Stop reports no
\* error, just as the first call does.
C19_SecondStopReportsNoError ==
    (stopN = 2 /\ stopPc = "returned") => stopRet = "nil"

(***************************************************************************)
(* Properties of a session's life: Close, configuration, timers            *)
(***************************************************************************)

\* C13: Closed is terminal: no execute call made after Close has returned
\* writes a command to the transport.  closedAt calls were started before the
\* first Close returned and each call writes at most one command line, so
\* if no later call wrote, at most closedAt lines were ever written.
C13_NoCommandAfterClose ==
    closedAt # -1 => Len(wlog) <= closedAt

\* C14: Close is safe on every session: on the session NewWithContext
\* returned and on the session a server worker hands to its handler, every
\* Close call returns nil without faulting.
C14_CloseReturnsNil ==
    \A s \in Sessions : \A i \in 1..Len(closes[s]) : closes[s][i] = "nil"

\* on the session NewWithContext returned a second Close changes nothing
C14_SecondCloseChangesNothing ==
    [][Len(closes[0]) >= 1 /\ closes'[0] # closes[0] =>
        /\ closes'[0] = Append(closes[0], "nil")
        /\ UNCHANGED <<varsSession, varsServer, varsEnv, varsCmd>>
        /\ UNCHANGED <<age, hage, hlimit, timeout, swritten, hres, closedAt, got, stopN>>]_vars

\* C15: every write of a mutable session field is made while holding the
\* session mutex: so while one goroutine holds the mutex inside execute, no
\* other goroutine changes debugMode, which execute reads before the write
\* and after the read.
C15_NoFieldWriteUnderAnothersLock ==
    [][mutex # 0 => debugMode' = debugMode]_vars

\* C16: while the handler runs, the context it was given is cancelled
\* exactly when the server's context is cancelled or the session's configured
\* timeout has elapsed since the handler was invoked: as soon as one of the
\* two has happened, and not before.
C16_CancelledAtConfiguredTimeout ==
    \A c \in Conns :
        wpc[c] \in {"handler", "exec"} =>
            (HandlerCtxDone(c) <=> (srvCtxDone \/ hage[c] >= timeout[c]))

\* C17: no worker outlives its deadline, whatever its handler does, so every
\* call of Stop eventually returns: a Stop that waits for the workers of a
\* running process gets its return.
C17_StopEventuallyReturns ==
    (stopPc = "wait" /\ ~crashed) ~> (stopPc = "returned" \/ crashed)

\* a worker blocked on its connection: in the ReadString of readEnvironment
\* or of an execute call of its handler
Blocked(c) == wpc[c] \in {"env", "exec"}

\* C18: a silent peer cannot wedge a worker: the deadline is set on the
\* connection before anything is read from or written to it; a read that is
\* still blocked when the deadline has passed returns with an error; so
\* every blocked read of a running process eventually returns.
C18_DeadlineUnblocksReads ==
    /\ [](\A c \in Conns : (serr[c] # "unread" \/ swritten[c] > 0) => deadline[c])
    /\ [][\A c \in Conns :
            (Blocked(c) /\ age[c] >= ConnDeadline /\ wpc'[c] # wpc[c]) =>
                \/ wpc[c] = "env" /\ serr'[c] = "failed to read environment line"
                                  /\ wpath'[c] = "env error"
                \/ wpc[c] = "exec" /\ hres'[c] = "failed to read response"]_vars
    /\ \A c \in Conns : Blocked(c) ~> (~Blocked(c) \/ crashed)

\* the handler's execute was blocked when the deadline passed and returned
\* the read error
C18_Witness ==
    /\ wpc[1] = "handler"
    /\ swritten[1] = 1
    /\ age[1] >= ConnDeadline
    /\ hres[1] = "failed to read response"

\* the environment read was blocked when the deadline passed and failed
C18_WitnessEnv ==
    /\ wpath[1] = "env error"
    /\ shdr[1] = NoHeader
    /\ serr[1] = "failed to read environment line"

\* C20: no command is written to a session's transport, and no execute call
\* is made on it, before readEnvironment has returned nil for it: for the
\* session of a server worker (the handler runs, and writes, only then) and
\* for the session of NewWithContext (returned, and so used, only then).
C20_NoCommandBeforeEnvironment ==
    /\ \A c \in Conns :
          (swritten[c] > 0 \/ handled[c] > 0 \/ wpc[c] \in {"handler", "exec"}) =>
              serr[c] = NoErr
    /\ (ncalls > 0 \/ writer # <<>>) => (nsRet = "session" /\ serr[0] = NoErr)

\* a handler's command was written on a connection whose environment block
\* was read
C20_Witness ==
    /\ serr[1] = NoErr
    /\ shdr[1] = HOk
    /\ swritten[1] = 1
    /\ wpc[1] = "exec"

\* a command was written on the session NewWithContext returned
C20_WitnessStdin ==
    /\ nsRet = "session"
    /\ serr[0] = NoErr
    /\ writer = CommandOf("Answer") \o <<NL>>

(***************************************************************************)
(* Properties of the in-flight counter and of acceptance                   *)
(***************************************************************************)

\* Serve has called wg.Add(1) for connection c
Registered(c) == c < nextConn \/ (c = nextConn /\ servePc # "register")

\* C21: the in-flight counter is never negative and equals the number of
\* workers registered and not yet exited: a connection is registered once,
\* before its worker is spawned, and a worker decrements once.
C21_CounterCountsLiveWorkers ==
    /\ wg >= 0
    /\ wg = Cardinality({c \in Conns : Registered(c) /\ wpc[c] # "exited"})
    /\ \A c \in Conns : wpc[c] # "none" => Registered(c)
    /\ \A c \in Conns : wgDone[c] = IF wpc[c] = "exited" THEN 1 ELSE 0

\* one worker has exited and decremented, another is inside its handler, a
\* third connection, if any, is not accepted yet
C21_Witness ==
    /\ wg = 1
    /\ wpc[1] = "exited"
    /\ wgDone[1] = 1
    /\ wpc[2] = "handler"
    /\ nextConn = 2

\* C22: acceptance never blocks on request handling: whatever the workers
\* are doing, a running Serve whose listener is open can accept the next
\* connection (of those the run provides), and between an Accept and the
\* next it only registers and spawns, which wait for no worker.
C22_AcceptNeverWaitsForWorkers ==
    /\ (~crashed /\ servePc = "accept" /\ listener = "open" /\ nextConn < MaxConns)
           => ENABLED Accept
    /\ (~crashed /\ servePc = "register") => ENABLED Register
    /\ (~crashed /\ servePc = "spawn") => ENABLED Spawn

\* a connection was accepted and its worker started while the worker of the
\* connection before it was inside its handler, where it still is
C22_Witness ==
    /\ wpc[1] = "handler"
    /\ nextConn = 2
    /\ wpc[2] = "handler"
    /\ servePc = "accept"
    /\ wg = 2

(***************************************************************************)
(* Further properties of the codec, the wrappers and the environment       *)
(***************************************************************************)

\* C23: the result -1 convention is uniform: whenever execute returned a
\* reply with Result = -1 and no error, WaitForDigit and GetData, like
\* RecordFile, return the empty string and no error.
C23_MinusOneUniform ==
    (/\ cpc[1] = "done"
     /\ cop[1] \in {"WaitForDigit", "GetData", "RecordFile"}
     /\ cres[1].err = NoErr
     /\ cres[1].resp.Result = -1) =>
        ValueOf(cop[1], cres[1]) = Value(<<>>, NoErr)

\* C24: the environment is read-only after construction: once a session's
\* readEnvironment has returned, no step changes its environment; and GetEnv
\* returns the value of a key of the environment and the empty string for
\* any other key, which it does not insert.
C24_EnvironmentReadOnly ==
    /\ [][\A s \in Sessions : serr[s] # "unread" => senv'[s] = senv[s]]_vars
    /\ [](got.called =>
            /\ got.key \in DOMAIN senv[0] => got.val = senv[0][got.key]
            /\ got.key \notin DOMAIN senv[0] => got.val = <<>>)

\* GetEnv of a key the header block did not hold returned the empty string
\* and the environment still holds just the block's key
C24_Witness ==
    /\ got.called
    /\ got.key = <<"z">>
    /\ got.val = <<>>
    /\ shdr[0] = HOk
    /\ DOMAIN senv[0] = {<<"a">>}
    /\ ncalls > 0

\* C25: parseResponse is total: whatever line execute read, parseResponse
\* returns a reply or an error and does not fault.
C25_ParseResponseTotal ==
    \A c \in Callers : cpc[c] # "panicked" /\ ~cres[c].fault

\* C26: the session lock is released on every way out of execute (failed
\* write, failed read, failed parse, success): a caller outside the part of
\* execute between Lock and return does not hold the mutex, and with no
\* caller inside that part the mutex is free for the next Lock.
C26_LockReleasedOnEveryReturn ==
    /\ \A c \in Callers : cpc[c] \notin {"write", "read", "parse"} => mutex # c
    /\ InFlight = {} => mutex = 0

\* a call returned the read error, and the caller that was behind it took
\* the lock and wrote its command
C26_Witness ==
    \E c, d \in Callers :
        /\ c # d
        /\ cpc[c] = "done"
        /\ cres[c].err = "failed to read response"
        /\ wlog = <<c, d>>
        /\ mutex = d
        /\ cpc[d] = "read"

\* C27: JoinCommand and SplitCommand are inverse on argument lists: for
\* every list of non-empty arguments over a letter, space, double quote and
\* backslash, SplitCommand(JoinCommand(parts)) is parts.
C27_SplitInvertsJoin ==
    cstep = "split" => csplit = cparts

\* the lists the round trip does give back: those in which a backslash
\* occurs only in arguments that also hold a space or a double quote
C27_QuotedArgumentsRoundTrip ==
    (/\ cstep = "split"
     /\ \A i \in 1..Len(cparts) :
           (\E j \in 1..Len(cparts[i]) : cparts[i][j] = BS) => NeedsQuotes(cparts[i]))
        => csplit = cparts

====
